---- MODULE Spec2Model ----
(***************************************************************************)
(* Model of the rag-chatbot composition layer:                             *)
(*   - the UI session state machine declared by                            *)
(*     PrivateGptUi._build_ui_blocks (src/Tin/test/test_ui.py), and         *)
(*   - the application assembler create_app (src/private_gpt/launcher.py). *)
(*                                                                         *)
(* The UI source declares the components, their initial properties and the *)
(* event bindings (which components each event reads and writes), but the  *)
(* bound handler functions are not part of the source: the bindings carry  *)
(* no fn.  The handlers are therefore modelled from section 4.2 of the     *)
(* specification; the bindings, the initial component properties and       *)
(* toggle_sidebar are modelled from the source.                            *)
(***************************************************************************)
EXTENDS Integers, Sequences, FiniteSets, TLC

\* ------------------------------------------------------------------ bounds
\* Number of internal references the ingestion collaborator ever hands out.
MaxRefs == 3
\* Largest number of paths in one upload.
MaxUpload == 2
\* Number of clicks on the Sidebar button that are counted.
MaxClicks == 3

\* ------------------------------------------------------------------- modes
RAG_MODE == "RAG"
SEARCH_MODE == "Search"
BASIC_CHAT_MODE == "Basic"
SUMMARIZE_MODE == "Summarize"

MODES == <<RAG_MODE, SEARCH_MODE, BASIC_CHAT_MODE, SUMMARIZE_MODE>>

ModeValues == {MODES[i] : i \in 1..Len(MODES)}

\* The Radio is built without a value: no option is chosen.
ModeUnset == "unset"

\* ------------------------------------------------------------ input domains
Paths == {"a.pdf", "b.pdf"}
PathLists == UNION {[1..n -> Paths] : n \in 1..MaxUpload}
PromptTexts == {"be brief"}

\* The selection is a sequence: empty for the sentinel "all", <<ref>> for one file.
AllFiles == <<>>
OneFile(ref) == <<ref>>
AllFilesText == "All files"

VARIABLES
  \* components of the layout, named as in _build_ui_blocks
  mode,                  \* value of the Mode radio
  explanation_mode,      \* text of the explanation box
  ingested_dataset,      \* rows of the "Ingested Files" list, in upload order
  deselect_file_button,  \* interactive flag of "De-select selected file"
  selected_text,         \* text of "Selected for Query or Deletion"
  delete_file_button,    \* interactive flag of "Delete selected file"
  system_prompt_input,   \* text of the system prompt box
  sidebar_left,          \* visible flag of the left column
  sidebar_state,         \* gr.State behind the Sidebar button
  \* state of the session controller behind the handlers
  selection,             \* AllFiles or OneFile(internal reference)
  current_mode,          \* mode the controller works in
  system_prompt,         \* active system prompt
  next_ref,              \* references handed out so far by the ingestion collaborator
  \* observers of the run (history, read by the properties only)
  last_event,            \* the last user event handled
  repeated,              \* the last event equals the one before it
  trip,                  \* progress through DeselectFile, SelectFile, DeselectFile
  clicks,                \* clicks on the Sidebar button so far
  \* create_app and the requests served by the application it returns
  app_pc,                \* position in create_app
  settings,              \* root_injector.get(Settings)
  environment,           \* what the process finds installed
  routers,               \* routers included in app, in order
  callback_manager,      \* LlamaIndexSettings.callback_manager
  middleware,            \* middleware added to app, in order
  mounts,                \* sub-applications mounted in app
  dependencies,          \* dependencies of app, run for every route
  req_pc,                \* position of each request
  req_injector,          \* request.state.injector of each request
  injector_data,         \* mutable content of each injector object
  req_seen               \* what each request's handler read through its injector

uiComponents == <<mode, explanation_mode, ingested_dataset, deselect_file_button,
                  selected_text, delete_file_button, system_prompt_input,
                  sidebar_left, sidebar_state>>
uiController == <<selection, current_mode, system_prompt, next_ref>>
uiObservers == <<last_event, repeated, trip, clicks>>
uiVars == <<uiComponents, uiController, uiObservers>>
appVars == <<app_pc, settings, environment, routers, callback_manager, middleware,
             mounts, dependencies, req_pc, req_injector, injector_data, req_seen>>
vars == <<uiVars, appVars>>

\* ------------------------------------------------- initial component values
DeselectFileButtonInit == FALSE
DeleteFileButtonInteractive == TRUE
DeleteFileButtonInit == FALSE
SelectedTextInit == AllFilesText
SidebarLeftInit == FALSE
SidebarStateInit == FALSE

\* ------------------------------------------------------------ event bindings
\* outputs= of each binding: the components the handler's result is written to.
UploadOutputsNone == {}
UploadOutputs == {"ingested_dataset"}
FilesListChangedOutputs == {"ingested_dataset"}
DeselectOutputsNoDelete == {"deselect_file_button", "selected_text"}
DeselectOutputs == {"delete_file_button", "deselect_file_button", "selected_text"}
SelectOutputsNoText == {"delete_file_button", "deselect_file_button"}
SelectOutputs == {"delete_file_button", "deselect_file_button", "selected_text"}
DeleteSelectedOutputsNoList == {"delete_file_button", "deselect_file_button",
                                "selected_text"}
DeleteSelectedOutputs == {"ingested_dataset", "delete_file_button",
                          "deselect_file_button", "selected_text"}
DeleteAllOutputsNoText == {"ingested_dataset", "delete_file_button",
                           "deselect_file_button"}
DeleteAllOutputs == {"ingested_dataset", "delete_file_button",
                     "deselect_file_button", "selected_text"}
ModeChangeOutputs == {"system_prompt_input", "explanation_mode"}
\* inputs= of the bindings that read a component.
ModeChangeInputsPrompt == "system_prompt_input"
ModeChangeInputs == "mode"
BlurInputsMode == "mode"
BlurInputs == "system_prompt_input"
BlurOutputs == {}

\* A component named in outputs takes the handler's value, any other keeps its own.
Written(outputs, name, new, old) == IF name \in outputs THEN new ELSE old

\* ----------------------------------------------------------------- helpers
Refs(files) == {files[i].internal_reference : i \in 1..Len(files)}

RECURSIVE Without(_, _)
\* files without the entries whose reference is ref, the others in their order
Without(files, ref) ==
  IF files = <<>> THEN <<>>
  ELSE IF Head(files).internal_reference = ref
       THEN Without(Tail(files), ref)
       ELSE <<Head(files)>> \o Without(Tail(files), ref)

DisplayName(files, ref) ==
  LET i == CHOOSE j \in 1..Len(files) : files[j].internal_reference = ref
  IN files[i].display_name

\* Externally supplied defaults of a mode.
DefaultSystemPrompt(m) ==
  CASE m = RAG_MODE -> "rag prompt"
    [] m = SEARCH_MODE -> "search prompt"
    [] m = BASIC_CHAT_MODE -> "basic prompt"
    [] m = SUMMARIZE_MODE -> "summarize prompt"
    [] OTHER -> ""

ModeExplanation(m) ==
  CASE m = RAG_MODE -> "rag explanation"
    [] m = SEARCH_MODE -> "search explanation"
    [] m = BASIC_CHAT_MODE -> "basic explanation"
    [] m = SUMMARIZE_MODE -> "summarize explanation"
    [] OTHER -> ""

\* ---------------------------------------------------------------- observers
\* count: paths of an upload, reference of a selection, files before a delete.
Event(op) == [op |-> op, ok |-> TRUE, mode |-> "", count |-> 0]
NoEvent == Event("none")

Observe(e, stage) ==
  /\ last_event' = e
  /\ repeated' = (e = last_event)
  /\ trip' = stage
  /\ clicks' = IF e.op = "ToggleSidebar" THEN clicks + 1 ELSE clicks

\* ------------------------------------------------ handlers (specification 4.2)
\* uploadFiles(paths): one IngestedFile per path, appended in the order of paths.
UploadFile(files, paths, issued) ==
  files \o [i \in 1..Len(paths) |->
              [display_name |-> paths[i], internal_reference |-> issued + i]]

\* listFiles(): the re-render of the list shows the files as they are.
ListIngestedFiles(files) == files

DeselectSelectedFile ==
  [selection |-> AllFiles, delete_file_button |-> FALSE,
   deselect_file_button |-> FALSE, selected_text |-> AllFilesText]

SelectedAFile(files, ref) ==
  [selection |-> OneFile(ref), delete_file_button |-> TRUE,
   deselect_file_button |-> TRUE, selected_text |-> DisplayName(files, ref)]

\* What the delete handlers see of the session.
Current ==
  [ingested_dataset |-> ingested_dataset, selection |-> selection,
   delete_file_button |-> delete_file_button,
   deselect_file_button |-> deselect_file_button, selected_text |-> selected_text]

\* files without the file the selection refers to, if it refers to one
WithoutSelected(files, sel) ==
  IF sel = AllFiles THEN files ELSE Without(files, sel[1])

\* Variant that resets the selection and the controls whatever deleteFile reported.
DeleteSelectedFileResetAlways(cur, ok) ==
  [ingested_dataset |->
     IF ok THEN WithoutSelected(cur.ingested_dataset, cur.selection)
     ELSE cur.ingested_dataset,
   selection |-> AllFiles, delete_file_button |-> FALSE,
   deselect_file_button |-> FALSE, selected_text |-> AllFilesText]

\* deleteFile(ref) reported ok: a failure changes nothing.
DeleteSelectedFile(cur, ok) ==
  IF ok
  THEN [ingested_dataset |-> WithoutSelected(cur.ingested_dataset, cur.selection),
        selection |-> AllFiles, delete_file_button |-> FALSE,
        deselect_file_button |-> FALSE, selected_text |-> AllFilesText]
  ELSE cur

\* Variant that empties the list and leaves the controller's selection alone.
DeleteAllFilesKeepSelection(cur, ok) ==
  IF ok
  THEN [ingested_dataset |-> <<>>,
        selection |-> cur.selection, delete_file_button |-> FALSE,
        deselect_file_button |-> FALSE, selected_text |-> AllFilesText]
  ELSE cur

\* deleteAllFiles() reported ok: a failure changes nothing.
DeleteAllFiles(cur, ok) ==
  IF ok
  THEN [ingested_dataset |-> <<>>,
        selection |-> AllFiles, delete_file_button |-> FALSE,
        deselect_file_button |-> FALSE, selected_text |-> AllFilesText]
  ELSE cur

SetCurrentMode(m) ==
  [current_mode |-> m, system_prompt |-> DefaultSystemPrompt(m),
   system_prompt_input |-> DefaultSystemPrompt(m),
   explanation_mode |-> ModeExplanation(m)]

SetSystemPrompt(text) == text

\* ------------------------------------------------------------ UI transitions
InitUi ==
  /\ mode = ModeUnset
  /\ explanation_mode = ""
  /\ ingested_dataset = <<>>
  /\ deselect_file_button = DeselectFileButtonInit
  /\ selected_text = SelectedTextInit
  /\ delete_file_button = DeleteFileButtonInit
  /\ system_prompt_input = ""
  /\ sidebar_left = SidebarLeftInit
  /\ sidebar_state = SidebarStateInit
  /\ selection = AllFiles
  /\ current_mode = ModeUnset
  /\ system_prompt = ""
  /\ next_ref = 0
  /\ last_event = NoEvent
  /\ repeated = FALSE
  /\ trip = 0
  /\ clicks = 0

\* upload_button.upload(inputs=upload_button, outputs=ingested_dataset)
UploadFiles(paths) ==
  /\ next_ref + Len(paths) <= MaxRefs
  /\ ingested_dataset' =
       Written(UploadOutputs, "ingested_dataset",
               UploadFile(ingested_dataset, paths, next_ref), ingested_dataset)
  /\ next_ref' = next_ref + Len(paths)
  /\ UNCHANGED appVars
  /\ Observe([Event("UploadFiles") EXCEPT !.count = Len(paths)], 0)
  /\ UNCHANGED <<mode, explanation_mode, deselect_file_button, selected_text,
                 delete_file_button, system_prompt_input, sidebar_left,
                 sidebar_state, selection, current_mode, system_prompt>>

\* ingested_dataset.change(outputs=ingested_dataset)
FilesListChanged ==
  /\ ingested_dataset' =
       Written(FilesListChangedOutputs, "ingested_dataset",
               ListIngestedFiles(ingested_dataset), ingested_dataset)
  /\ UNCHANGED appVars
  /\ Observe(Event("FilesListChanged"), 0)
  /\ UNCHANGED <<mode, explanation_mode, deselect_file_button, selected_text,
                 delete_file_button, system_prompt_input, sidebar_left,
                 sidebar_state, uiController>>

\* ingested_dataset.select(outputs=[delete_file_button, deselect_file_button, selected_text])
SelectFile(ref) ==
  /\ ref \in Refs(ingested_dataset)
  /\ LET r == SelectedAFile(ingested_dataset, ref) IN
       /\ selection' = r.selection
       /\ delete_file_button' =
            Written(SelectOutputs, "delete_file_button", r.delete_file_button,
                    delete_file_button)
       /\ deselect_file_button' =
            Written(SelectOutputs, "deselect_file_button", r.deselect_file_button,
                    deselect_file_button)
       /\ selected_text' =
            Written(SelectOutputs, "selected_text", r.selected_text, selected_text)
  /\ UNCHANGED appVars
  /\ Observe([Event("SelectFile") EXCEPT !.count = ref],
             IF trip \in {1, 3} THEN 2 ELSE 0)
  /\ UNCHANGED <<mode, explanation_mode, ingested_dataset, system_prompt_input,
                 sidebar_left, sidebar_state, current_mode, system_prompt, next_ref>>

\* deselect_file_button.click(outputs=[delete_file_button, deselect_file_button, selected_text])
DeselectFile ==
  /\ deselect_file_button
  /\ LET r == DeselectSelectedFile IN
       /\ selection' = r.selection
       /\ delete_file_button' =
            Written(DeselectOutputs, "delete_file_button", r.delete_file_button,
                    delete_file_button)
       /\ deselect_file_button' =
            Written(DeselectOutputs, "deselect_file_button", r.deselect_file_button,
                    deselect_file_button)
       /\ selected_text' =
            Written(DeselectOutputs, "selected_text", r.selected_text, selected_text)
  /\ UNCHANGED appVars
  /\ Observe(Event("DeselectFile"), IF trip = 2 THEN 3 ELSE 1)
  /\ UNCHANGED <<mode, explanation_mode, ingested_dataset, system_prompt_input,
                 sidebar_left, sidebar_state, current_mode, system_prompt, next_ref>>

\* The writes of the two delete bindings, which share their outputs' shape.
WriteDeleteResult(outputs, r) ==
  /\ selection' = r.selection
  /\ ingested_dataset' =
       Written(outputs, "ingested_dataset", r.ingested_dataset, ingested_dataset)
  /\ delete_file_button' =
       Written(outputs, "delete_file_button", r.delete_file_button,
               delete_file_button)
  /\ deselect_file_button' =
       Written(outputs, "deselect_file_button", r.deselect_file_button,
               deselect_file_button)
  /\ selected_text' =
       Written(outputs, "selected_text", r.selected_text, selected_text)

\* delete_file_button.click(outputs=[ingested_dataset, delete_file_button,
\*                                   deselect_file_button, selected_text])
DeleteSelected(ok) ==
  /\ delete_file_button
  /\ WriteDeleteResult(DeleteSelectedOutputs, DeleteSelectedFile(Current, ok))
  /\ UNCHANGED appVars
  /\ Observe([Event("DeleteSelected") EXCEPT !.ok = ok,
                                           !.count = Len(ingested_dataset)], 0)
  /\ UNCHANGED <<mode, explanation_mode, system_prompt_input, sidebar_left,
                 sidebar_state, current_mode, system_prompt, next_ref>>

\* delete_files_button.click(outputs=[ingested_dataset, delete_file_button,
\*                                    deselect_file_button, selected_text])
DeleteAll(ok) ==
  /\ WriteDeleteResult(DeleteAllOutputs, DeleteAllFiles(Current, ok))
  /\ UNCHANGED appVars
  /\ Observe([Event("DeleteAll") EXCEPT !.ok = ok,
                                      !.count = Len(ingested_dataset)], 0)
  /\ UNCHANGED <<mode, explanation_mode, system_prompt_input, sidebar_left,
                 sidebar_state, current_mode, system_prompt, next_ref>>

\* Value of the component a binding names in inputs=, once the user's own
\* edit (radio choice m, typed text t) is in place.
InputValue(name, m, t) ==
  CASE name = "mode" -> m
    [] name = "system_prompt_input" -> t
    [] name = "explanation_mode" -> explanation_mode
    [] name = "selected_text" -> selected_text
    [] OTHER -> ""

\* mode.change(inputs=mode, outputs=[system_prompt_input, explanation_mode])
ChangeMode(m) ==
  /\ mode' = m
  /\ LET r == SetCurrentMode(InputValue(ModeChangeInputs, m, system_prompt_input)) IN
       /\ current_mode' = r.current_mode
       /\ system_prompt' = r.system_prompt
       /\ system_prompt_input' =
            Written(ModeChangeOutputs, "system_prompt_input", r.system_prompt_input,
                    system_prompt_input)
       /\ explanation_mode' =
            Written(ModeChangeOutputs, "explanation_mode", r.explanation_mode,
                    explanation_mode)
  /\ UNCHANGED appVars
  /\ Observe([Event("ChangeMode") EXCEPT !.mode = m], 0)
  /\ UNCHANGED <<ingested_dataset, deselect_file_button, selected_text,
                 delete_file_button, sidebar_left, sidebar_state, selection, next_ref>>

\* system_prompt_input.blur(inputs=system_prompt_input, outputs=None)
EditSystemPrompt(text) ==
  /\ system_prompt_input' = text
  /\ system_prompt' = SetSystemPrompt(InputValue(BlurInputs, mode, text))
  /\ UNCHANGED appVars
  /\ Observe(Event("EditSystemPrompt"), 0)
  /\ UNCHANGED <<mode, explanation_mode, ingested_dataset, deselect_file_button,
                 selected_text, delete_file_button, sidebar_left, sidebar_state,
                 selection, current_mode, next_ref>>

\* Variant returning the state without negating it.
toggle_sidebar_identity(state) == [sidebar_left |-> state, sidebar_state |-> state]

\* Variant showing the column by the state as it was before the negation.
toggle_sidebar_stale_visible(state) ==
  [sidebar_left |-> state, sidebar_state |-> ~state]

\* def toggle_sidebar(state): state = not state; return gr.update(visible=state), state
toggle_sidebar(state) ==
  LET negated == ~state IN [sidebar_left |-> negated, sidebar_state |-> negated]

\* btn_toggle_sidebar.click(toggle_sidebar, [sidebar_state], [sidebar_left, sidebar_state])
ToggleSidebar ==
  /\ clicks < MaxClicks
  /\ LET r == toggle_sidebar(sidebar_state) IN
       /\ sidebar_left' = r.sidebar_left
       /\ sidebar_state' = r.sidebar_state
  /\ UNCHANGED appVars
  /\ Observe(Event("ToggleSidebar"), 0)
  /\ UNCHANGED <<mode, explanation_mode, ingested_dataset, deselect_file_button,
                 selected_text, delete_file_button, system_prompt_input,
                 uiController>>

\* ------------------------------------------------------------- create_app
\* Number of requests the returned application serves.
MaxRequests == 2
Requests == 1..MaxRequests

\* Variant including chat before completions.
ROUTER_ORDER_ChatFirst == <<"chat", "completions", "chunks", "ingest",
                            "summarize", "embeddings", "health">>

\* The routers in the order of the include_router calls.
ROUTER_ORDER == <<"completions", "chat", "chunks", "ingest", "summarize",
                  "embeddings", "health">>

\* CORS policies the settings may carry.
CorsPolicies ==
  { [enabled |-> FALSE, allow_credentials |-> FALSE, allow_origins |-> <<>>,
     allow_origin_regex |-> "regex:none", allow_methods |-> <<"GET">>,
     allow_headers |-> <<>>],
    [enabled |-> TRUE, allow_credentials |-> FALSE, allow_origins |-> <<"*">>,
     allow_origin_regex |-> "regex:none", allow_methods |-> <<"GET", "POST">>,
     allow_headers |-> <<"X-Token">>],
    [enabled |-> TRUE, allow_credentials |-> TRUE,
     allow_origins |-> <<"http://localhost">>,
     allow_origin_regex |-> "regex:https://.*", allow_methods |-> <<"GET">>,
     allow_headers |-> <<"Authorization">>],
    [enabled |-> FALSE, allow_credentials |-> TRUE, allow_origins |-> <<"*">>,
     allow_origin_regex |-> "regex:https://.*", allow_methods |-> <<"POST">>,
     allow_headers |-> <<"X-Token">>] }

UiSettings == [enabled : BOOLEAN, path : {"/", "/ui"}]

SettingsChoices == [cors : CorsPolicies, ui : UiSettings]

\* The path each imported router declares: all different, or chunks declaring
\* the path of chat.
RouterPathsDistinct ==
  [completions |-> "/v1/completions", chat |-> "/v1/chat/completions",
   chunks |-> "/v1/chunks", ingest |-> "/v1/ingest",
   summarize |-> "/v1/summarize", embeddings |-> "/v1/embeddings",
   health |-> "/health"]
RouterPathsColliding ==
  [RouterPathsDistinct EXCEPT !.chunks = RouterPathsDistinct.chat]
RouterPathChoices == {RouterPathsDistinct, RouterPathsColliding}

\* ui_importable: "from private_gpt.ui.ui import PrivateGptUi" succeeds;
\* global_handler: create_global_handler("simple") returns a handler;
\* router_paths: the paths of the imported routers.
Environments == [ui_importable : BOOLEAN, global_handler : BOOLEAN,
                 router_paths : RouterPathChoices]

\* Objects a request's state can refer to.
RootInjector == <<"root_injector", 0>>
RequestContext(r) == <<"request_context", r>>
NoInjector == <<"none", 0>>
Objects == {RootInjector} \cup {RequestContext(r) : r \in Requests}

AppStart(s, e) ==
  /\ app_pc = "FastAPI"
  /\ settings = s
  /\ environment = e
  /\ routers = <<>>
  /\ callback_manager = <<>>
  /\ middleware = <<>>
  /\ mounts = <<>>
  /\ dependencies = <<>>
  /\ req_pc = [r \in Requests |-> "idle"]
  /\ req_injector = [r \in Requests |-> NoInjector]
  /\ injector_data = [o \in Objects |-> 0]
  /\ req_seen = [r \in Requests |-> 0]

InitApp == \E s \in SettingsChoices, e \in Environments : AppStart(s, e)

\* Variant constructing the application without dependencies.
AppDependenciesNone == <<>>

\* dependencies=[Depends(bind_injector_to_request)]
AppDependencies == <<"bind_injector_to_request">>

\* app = FastAPI(dependencies=[Depends(bind_injector_to_request)])
NewFastAPI ==
  /\ app_pc = "FastAPI"
  /\ dependencies' = AppDependencies
  /\ app_pc' = "include_router"
  /\ UNCHANGED uiVars
  /\ UNCHANGED <<settings, environment, routers, callback_manager, middleware,
                 mounts, req_pc, req_injector, injector_data, req_seen>>

\* The routes of app: the path of each included router, in order.
Routes ==
  [i \in 1..Len(routers) |->
     [router |-> routers[i], path |-> environment.router_paths[routers[i]]]]

\* Variant refusing a router whose path an included router already declares.
IncludeRouterRejectingCollision ==
  /\ app_pc = "include_router"
  /\ Len(routers) < Len(ROUTER_ORDER)
  /\ LET next == ROUTER_ORDER[Len(routers) + 1] IN
       IF \E i \in 1..Len(Routes) :
            Routes[i].path = environment.router_paths[next]
       THEN /\ routers' = routers
            /\ app_pc' = "ConfigurationError"
       ELSE /\ routers' = Append(routers, next)
            /\ app_pc' = IF Len(routers') = Len(ROUTER_ORDER)
                         THEN "global_handler" ELSE "include_router"
  /\ UNCHANGED <<uiVars, dependencies>>
  /\ UNCHANGED <<settings, environment, callback_manager, middleware, mounts,
                 req_pc, req_injector, injector_data, req_seen>>

\* app.include_router(...), seven calls in sequence
IncludeRouter ==
  /\ app_pc = "include_router"
  /\ Len(routers) < Len(ROUTER_ORDER)
  /\ routers' = Append(routers, ROUTER_ORDER[Len(routers) + 1])
  /\ app_pc' = IF Len(routers') = Len(ROUTER_ORDER)
               THEN "global_handler" ELSE "include_router"
  /\ UNCHANGED <<uiVars, dependencies>>
  /\ UNCHANGED <<settings, environment, callback_manager, middleware, mounts,
                 req_pc, req_injector, injector_data, req_seen>>

\* global_handler = create_global_handler("simple")
\* if global_handler: LlamaIndexSettings.callback_manager = CallbackManager([global_handler])
SetGlobalHandler ==
  /\ app_pc = "global_handler"
  /\ callback_manager' = IF environment.global_handler
                         THEN <<"simple">> ELSE callback_manager
  /\ app_pc' = "cors"
  /\ UNCHANGED <<uiVars, dependencies>>
  /\ UNCHANGED <<settings, environment, routers, middleware, mounts,
                 req_pc, req_injector, injector_data, req_seen>>

\* Variant passing the methods where the headers belong.
CorsMiddlewareMethodsAsHeaders(cors) ==
  [class |-> "CORSMiddleware",
   allow_credentials |-> cors.allow_credentials,
   allow_origins |-> cors.allow_origins,
   allow_origin_regex |-> cors.allow_origin_regex,
   allow_methods |-> cors.allow_methods,
   allow_headers |-> cors.allow_methods]

\* The arguments of app.add_middleware(CORSMiddleware, ...).
CorsMiddleware(cors) ==
  [class |-> "CORSMiddleware",
   allow_credentials |-> cors.allow_credentials,
   allow_origins |-> cors.allow_origins,
   allow_origin_regex |-> cors.allow_origin_regex,
   allow_methods |-> cors.allow_methods,
   allow_headers |-> cors.allow_headers]

\* if settings.server.cors.enabled:
CorsEnabled(s) == s.cors.enabled

\* settings = root_injector.get(Settings); if ...cors.enabled: app.add_middleware(...)
SetupCors ==
  /\ app_pc = "cors"
  /\ middleware' = IF CorsEnabled(settings)
                   THEN Append(middleware, CorsMiddleware(settings.cors))
                   ELSE middleware
  /\ app_pc' = "ui"
  /\ UNCHANGED <<uiVars, dependencies>>
  /\ UNCHANGED <<settings, environment, routers, callback_manager, mounts,
                 req_pc, req_injector, injector_data, req_seen>>

\* Variant mounting the UI at the root whatever settings.ui.path says.
UiMountAtRoot(s) == [path |-> "/", app |-> "PrivateGptUi"]

\* ui.mount_in_app(app, settings.ui.path)
UiMount(s) == [path |-> s.ui.path, app |-> "PrivateGptUi"]

\* Variant that logs a failed import of the UI module and returns the app.
MountUiDegraded ==
  /\ app_pc = "ui"
  /\ mounts' = IF settings.ui.enabled /\ environment.ui_importable
               THEN Append(mounts, UiMount(settings)) ELSE mounts
  /\ app_pc' = "returned"
  /\ UNCHANGED <<uiVars, dependencies>>
  /\ UNCHANGED <<settings, environment, routers, callback_manager, middleware,
                 req_pc, req_injector, injector_data, req_seen>>

\* if settings.ui.enabled: import the UI module (ImportError if its dependencies
\* are missing), ui.mount_in_app(app, settings.ui.path); return app
MountUi ==
  /\ app_pc = "ui"
  /\ IF settings.ui.enabled
     THEN IF environment.ui_importable
          THEN /\ mounts' = Append(mounts, UiMount(settings))
               /\ app_pc' = "returned"
          ELSE /\ mounts' = mounts
               /\ app_pc' = "ImportError"
     ELSE /\ mounts' = mounts
          /\ app_pc' = "returned"
  /\ UNCHANGED <<uiVars, dependencies>>
  /\ UNCHANGED <<settings, environment, routers, callback_manager, middleware,
                 req_pc, req_injector, injector_data, req_seen>>

\* ---------------------------------------------------------------- requests
\* Variant constructing a context of its own for each request.
FreshContext(r) == RequestContext(r)

\* request.state.injector = root_injector
BoundInjector(r) == RootInjector

\* bind_injector_to_request is among the dependencies of app.
BinderRegistered ==
  \E i \in 1..Len(dependencies) : dependencies[i] = "bind_injector_to_request"

\* async def bind_injector_to_request(request): run for a request as a
\* dependency of app
BindInjectorToRequest(r) ==
  /\ app_pc = "returned"
  /\ BinderRegistered
  /\ req_pc[r] = "idle"
  /\ req_injector' = [req_injector EXCEPT ![r] = BoundInjector(r)]
  /\ req_pc' = [req_pc EXCEPT ![r] = "bound"]
  /\ UNCHANGED <<uiVars, dependencies>>
  /\ UNCHANGED <<app_pc, settings, environment, routers, callback_manager,
                 middleware, mounts, injector_data, req_seen>>

\* The dependencies the matched router declares itself are resolved once the
\* dependencies of app have run.
ResolveRouterDependencies(r) ==
  /\ app_pc = "returned"
  /\ req_pc[r] = IF BinderRegistered THEN "bound" ELSE "idle"
  /\ req_pc' = [req_pc EXCEPT ![r] = "resolved"]
  /\ UNCHANGED <<uiVars, dependencies>>
  /\ UNCHANGED <<app_pc, settings, environment, routers, callback_manager,
                 middleware, mounts, req_injector, injector_data, req_seen>>

\* A router's handler working through request.state.injector: it reads what the
\* injector holds and leaves its own mark in it; without an injector on the
\* request it fails.
HandleRequest(r) ==
  /\ req_pc[r] = "resolved"
  /\ IF req_injector[r] = NoInjector
     THEN /\ req_pc' = [req_pc EXCEPT ![r] = "failed"]
          /\ UNCHANGED <<req_seen, injector_data>>
     ELSE /\ req_seen' = [req_seen EXCEPT ![r] = injector_data[req_injector[r]]]
          /\ injector_data' = [injector_data EXCEPT ![req_injector[r]] = r]
          /\ req_pc' = [req_pc EXCEPT ![r] = "handled"]
  /\ UNCHANGED <<uiVars, dependencies>>
  /\ UNCHANGED <<app_pc, settings, environment, routers, callback_manager,
                 middleware, mounts, req_injector>>

\* ----------------------------------------------------------- specifications
\* The UI session, with the application side held at its start.
InitUiSession ==
  /\ InitUi
  /\ AppStart(CHOOSE s \in SettingsChoices : ~s.cors.enabled /\ ~s.ui.enabled
                                            /\ ~s.cors.allow_credentials
                                            /\ s.ui.path = "/",
              [ui_importable |-> TRUE, global_handler |-> TRUE,
               router_paths |-> RouterPathsDistinct])

NextUi ==
  \/ \E paths \in PathLists : UploadFiles(paths)
  \/ FilesListChanged
  \/ \E ref \in 1..MaxRefs : SelectFile(ref)
  \/ DeselectFile
  \/ \E ok \in BOOLEAN : DeleteSelected(ok)
  \/ \E ok \in BOOLEAN : DeleteAll(ok)
  \/ \E m \in ModeValues : ChangeMode(m)
  \/ \E text \in PromptTexts : EditSystemPrompt(text)
  \/ ToggleSidebar

SpecUi == InitUiSession /\ [][NextUi]_vars

\* Assembly and the requests served afterwards, with the UI session untouched.
InitAssembly == InitUi /\ InitApp

NextApp ==
  \/ NewFastAPI
  \/ IncludeRouter
  \/ SetGlobalHandler
  \/ SetupCors
  \/ MountUi
  \/ \E r \in Requests : BindInjectorToRequest(r)
  \/ \E r \in Requests : ResolveRouterDependencies(r)
  \/ \E r \in Requests : HandleRequest(r)

SpecApp == InitAssembly /\ [][NextApp]_vars

\* ------------------------------------------------------------------ claims
\* The session as the user sees it: every component and the controller's state.
sessionState == <<uiComponents, uiController>>

ControlsDisabled == ~delete_file_button /\ ~deselect_file_button

\* C1: in every reachable state the selection is the sentinel "all" or the
\* reference of a file that is present in the list of ingested files.
C1_SelectionNeverDangling ==
  \/ selection = AllFiles
  \/ /\ Len(selection) = 1
     /\ selection[1] \in Refs(ingested_dataset)

\* C1 witness: a selected file was deleted while other files stay in the list.
C1_Witness ==
  /\ last_event.op = "DeleteSelected"
  /\ last_event.ok
  /\ ingested_dataset # <<>>
  /\ selection = AllFiles

\* C2: the delete-selected-file control and the deselect control are enabled
\* exactly when the selection is not "all", in every reachable state, and no
\* DeleteSelected step starts from a state whose selection is "all".
C2_ControlsFollowSelection ==
  /\ [](/\ delete_file_button <=> selection # AllFiles
        /\ deselect_file_button <=> selection # AllFiles)
  /\ [][(\E ok \in BOOLEAN : DeleteSelected(ok)) => selection # AllFiles]_vars

\* C2 witness: a file has been selected and both controls are enabled.
C2_Witness ==
  /\ last_event.op = "SelectFile"
  /\ selection # AllFiles
  /\ delete_file_button
  /\ deselect_file_button

\* C3: a DeleteSelected whose deleteFile call reports failure leaves every
\* component and the whole controller state as they were.
C3_FailedDeleteChangesNothing ==
  [][DeleteSelected(FALSE) => UNCHANGED sessionState]_vars

\* C3 witness: deleteFile has just failed on a selected file, which is still
\* listed and still selected.
C3_Witness ==
  /\ last_event.op = "DeleteSelected"
  /\ ~last_event.ok
  /\ selection # AllFiles
  /\ Len(ingested_dataset) = last_event.count

\* after is before with the entry of reference ref taken out, the rest in order
RemovedOne(before, after, ref) ==
  \E i \in 1..Len(before) :
    /\ before[i].internal_reference = ref
    /\ Len(after) = Len(before) - 1
    /\ \A j \in 1..Len(after) : after[j] = IF j < i THEN before[j] ELSE before[j + 1]

\* C4: a DeleteSelected that succeeds with selection = ref removes exactly the
\* referenced entry, keeps the others in their order, sets the selection to
\* "all" and disables the delete-one and deselect controls.
C4_DeleteSelectedRemovesOne ==
  [][\A ref \in 1..MaxRefs :
       (selection = OneFile(ref) /\ DeleteSelected(TRUE)) =>
         /\ RemovedOne(ingested_dataset, ingested_dataset', ref)
         /\ ref \notin Refs(ingested_dataset')
         /\ selection' = AllFiles
         /\ ControlsDisabled']_vars

\* C4 witness: a successful DeleteSelected took one of at least three files.
C4_Witness ==
  /\ last_event.op = "DeleteSelected"
  /\ last_event.ok
  /\ last_event.count >= 3
  /\ Len(ingested_dataset) = last_event.count - 1

Cleared ==
  /\ ingested_dataset = <<>>
  /\ selection = AllFiles
  /\ ControlsDisabled
  /\ selected_text = AllFilesText

\* C5: DeleteAll is all-or-nothing: on success the list is empty, the selection
\* is "all", the delete-one and deselect controls are disabled and the text is
\* "All files", with everything else as before; on failure the whole session
\* is as before.
C5_DeleteAllAllOrNothing ==
  [][/\ DeleteAll(TRUE) =>
          /\ Cleared'
          /\ UNCHANGED <<mode, explanation_mode, system_prompt_input, sidebar_left,
                         sidebar_state, current_mode, system_prompt>>
     /\ DeleteAll(FALSE) => UNCHANGED sessionState
     /\ (\E ok \in BOOLEAN : DeleteAll(ok)) =>
          (ingested_dataset' = <<>> \/ ingested_dataset' = ingested_dataset)]_vars

\* C5 witness: a successful DeleteAll emptied a list of several files.
C5_Witness ==
  /\ last_event.op = "DeleteAll"
  /\ last_event.ok
  /\ last_event.count >= 2
  /\ Cleared

\* after is before followed by one entry per path, named after it, in the order
\* of paths, each with a reference no entry of before carries
AppendedPerPath(before, after, paths) ==
  /\ Len(after) = Len(before) + Len(paths)
  /\ \A j \in 1..Len(before) : after[j] = before[j]
  /\ \A i \in 1..Len(paths) :
       /\ after[Len(before) + i].display_name = paths[i]
       /\ after[Len(before) + i].internal_reference \notin Refs(before)
  /\ Cardinality(Refs(after)) = Len(after)

\* C6: UploadFiles(paths) appends one entry per path at the end of the list in
\* the order of paths, keeps the entries already there, and leaves the selection
\* and the enabled flags of the delete-one and deselect controls as they were.
C6_UploadAppends ==
  [][\A paths \in PathLists :
       UploadFiles(paths) =>
         /\ AppendedPerPath(ingested_dataset, ingested_dataset', paths)
         /\ UNCHANGED <<selection, delete_file_button, deselect_file_button>>]_vars

\* C6 witness: two paths were uploaded behind an existing file that is selected.
C6_Witness ==
  /\ last_event.op = "UploadFiles"
  /\ last_event.count = 2
  /\ Len(ingested_dataset) = 3
  /\ selection = OneFile(ingested_dataset[1].internal_reference)
  /\ delete_file_button

ModeChanged(m) == [Event("ChangeMode") EXCEPT !.mode = m]

\* C7: ChangeMode(m) sets the mode to m, for each of the four modes, and leaves
\* the files and the selection alone; a second ChangeMode(m) right after the
\* first changes neither the files, the selection nor the mode.
C7_ChangeModeIdempotent ==
  /\ [][\A m \in ModeValues :
          ChangeMode(m) =>
            /\ mode' = m
            /\ current_mode' = m
            /\ UNCHANGED <<ingested_dataset, selection>>]_vars
  /\ [][\A m \in ModeValues :
          (last_event = ModeChanged(m) /\ ChangeMode(m)) =>
            UNCHANGED <<ingested_dataset, selection, mode, current_mode>>]_vars
  /\ [](Cardinality(ModeValues) = 4)

\* C7 witness: the same mode was chosen twice in a row while files are listed
\* and one of them is selected.
C7_Witness ==
  /\ last_event.op = "ChangeMode"
  /\ repeated
  /\ mode = last_event.mode
  /\ ingested_dataset # <<>>
  /\ selection # AllFiles

\* C8: DeselectFile, SelectFile(ref), DeselectFile in a row end with the
\* selection "all" and the delete-one and deselect controls disabled, and none
\* of the three steps changes the files.
C8_DeselectRoundTrip ==
  /\ [](trip = 3 => selection = AllFiles /\ ControlsDisabled)
  /\ [][(DeselectFile \/ \E ref \in 1..MaxRefs : SelectFile(ref)) =>
          UNCHANGED ingested_dataset]_vars

\* C8 witness: the three steps have just run on a list of at least two files.
C8_Witness ==
  /\ trip = 3
  /\ last_event.op = "DeselectFile"
  /\ Len(ingested_dataset) >= 2

Bound(r) == req_pc[r] # "idle"

\* C9 as stated: the contexts attached to two different requests are never the
\* same object, and no handler sees a mark another request left.
C9_FreshContextPerRequest ==
  /\ \A r1, r2 \in Requests :
       (r1 # r2 /\ Bound(r1) /\ Bound(r2)) => req_injector[r1] # req_injector[r2]
  /\ \A r \in Requests : req_seen[r] = 0

\* C9 amended: the binder attaches the one root injector handed to create_app
\* to every request, so that any two bound requests hold the same object.
C9_RootInjectorShared ==
  /\ \A r \in Requests : Bound(r) => req_injector[r] = RootInjector
  /\ \A r1, r2 \in Requests :
       (Bound(r1) /\ Bound(r2)) => req_injector[r1] = req_injector[r2]

\* C9 witness: two requests were handled and the later one read the mark the
\* earlier one left in the shared injector.
C9_Witness ==
  \E r1, r2 \in Requests :
    /\ r1 # r2
    /\ req_pc[r1] = "handled"
    /\ req_pc[r2] = "handled"
    /\ req_seen[r2] = r1

CorsAttached == SelectSeq(middleware, LAMBDA mw : mw.class = "CORSMiddleware")

\* C10: once create_app is past its CORS step, a CORS middleware is attached
\* exactly when cors.enabled is true, there is never more than one, and an
\* attached one carries the five policy fields unchanged.
C10_CorsFollowsPolicy ==
  /\ Len(CorsAttached) <= 1
  /\ app_pc \in {"ui", "returned", "ImportError"} =>
       /\ Len(CorsAttached) = 1 <=> settings.cors.enabled
       /\ Len(CorsAttached) = 1 =>
            /\ CorsAttached[1].allow_credentials = settings.cors.allow_credentials
            /\ CorsAttached[1].allow_origins = settings.cors.allow_origins
            /\ CorsAttached[1].allow_origin_regex = settings.cors.allow_origin_regex
            /\ CorsAttached[1].allow_methods = settings.cors.allow_methods
            /\ CorsAttached[1].allow_headers = settings.cors.allow_headers

\* C10 witness: an application was returned with the wildcard-origin policy
\* attached.
C10_Witness ==
  /\ app_pc = "returned"
  /\ settings.cors.enabled
  /\ Len(CorsAttached) = 1
  /\ CorsAttached[1].allow_origins = <<"*">>

\* create_app has left its last statement: it returned app or raised.
AssemblyEnded == app_pc \in {"returned", "ImportError"}

UiUnresolvable == settings.ui.enabled /\ ~environment.ui_importable

UiMounts == SelectSeq(mounts, LAMBDA mt : mt.app = "PrivateGptUi")

\* C11: with ui.enabled and the UI module unresolvable, create_app ends by
\* raising and returns no application; no returned application has the UI
\* enabled without the UI mounted, and no request is served without a
\* returned application.
C11_UnresolvableUiFailsFast ==
  /\ (UiUnresolvable /\ AssemblyEnded) => app_pc = "ImportError"
  /\ UiUnresolvable => app_pc # "returned"
  /\ (app_pc = "returned" /\ settings.ui.enabled) => Len(UiMounts) = 1
  /\ app_pc # "returned" => \A r \in Requests : req_pc[r] = "idle"

\* C11 witness: create_app raised on the UI import, after the routers and the
\* CORS middleware were attached.
C11_Witness ==
  /\ app_pc = "ImportError"
  /\ UiUnresolvable
  /\ Len(routers) = 7
  /\ mounts = <<>>

\* C12: a returned application has the UI mounted at settings.ui.path exactly
\* when ui.enabled is true, and with ui.enabled false nothing is ever mounted.
C12_UiMountedIffEnabled ==
  /\ app_pc = "returned" =>
       /\ Len(UiMounts) = 1 <=> settings.ui.enabled
       /\ \A i \in 1..Len(UiMounts) : UiMounts[i].path = settings.ui.path
  /\ Len(UiMounts) <= 1
  /\ ~settings.ui.enabled => mounts = <<>>

\* C12 witness: an application was returned with the UI mounted at "/ui".
C12_Witness ==
  /\ app_pc = "returned"
  /\ settings.ui.enabled
  /\ settings.ui.path = "/ui"
  /\ Len(UiMounts) = 1
  /\ UiMounts[1].path = "/ui"

\* C13: the selection display text is "All files" when the selection is "all"
\* and the display name of the selected file otherwise, in every reachable
\* state; it is "All files" after every DeselectFile, successful DeleteSelected
\* and successful DeleteAll.
C13_DisplayTextFollowsSelection ==
  /\ [](selected_text = IF selection = AllFiles THEN AllFilesText
                        ELSE DisplayName(ingested_dataset, selection[1]))
  /\ [][(DeselectFile \/ DeleteSelected(TRUE) \/ DeleteAll(TRUE)) =>
          selected_text' = AllFilesText]_vars

\* C13 witness: b.pdf, the second file of the list, is selected and shown.
C13_Witness ==
  /\ last_event.op = "SelectFile"
  /\ Len(ingested_dataset) >= 2
  /\ selection = OneFile(ingested_dataset[2].internal_reference)
  /\ ingested_dataset[2].display_name = "b.pdf"
  /\ selected_text = "b.pdf"

\* C14: the sidebar flag is false initially, ToggleSidebar negates it and
\* leaves the mode, the files, the selection, the control flags and the display
\* text alone, and no step other than ToggleSidebar changes the flag.
C14_ToggleSidebarOrthogonal ==
  /\ ~sidebar_state
  /\ [][ToggleSidebar =>
          /\ sidebar_state' = ~sidebar_state
          /\ UNCHANGED <<mode, current_mode, ingested_dataset, selection,
                         delete_file_button, deselect_file_button, selected_text>>]_vars
  /\ [][sidebar_state' # sidebar_state => ToggleSidebar]_vars

\* C14 witness: the sidebar was toggled on while a file is selected in some mode.
C14_Witness ==
  /\ last_event.op = "ToggleSidebar"
  /\ sidebar_state
  /\ selection # AllFiles
  /\ mode \in ModeValues

\* C18: FilesListChanged changes nothing of the session; EditSystemPrompt(text)
\* stores text as the system prompt and leaves the mode, the files, the
\* selection, the sidebar flag, the control flags, the display text and the
\* explanation alone (the prompt box holds the text the user typed).
C18_ReactiveEventsFrame ==
  /\ [][FilesListChanged => UNCHANGED sessionState]_vars
  /\ [][\A text \in PromptTexts :
          EditSystemPrompt(text) =>
            /\ system_prompt' = text
            /\ system_prompt_input' = text
            /\ UNCHANGED <<mode, current_mode, explanation_mode, ingested_dataset,
                           selection, next_ref, sidebar_left, sidebar_state,
                           delete_file_button, deselect_file_button,
                           selected_text>>]_vars

\* C18 witness: the prompt was edited in a chosen mode while a file is selected
\* and the sidebar is shown.
C18_Witness ==
  /\ last_event.op = "EditSystemPrompt"
  /\ system_prompt \in PromptTexts
  /\ mode \in ModeValues
  /\ selection # AllFiles
  /\ sidebar_state

\* C19: the visibility of the left column equals the stored sidebar flag; both
\* are false at the start and, after n clicks of the Sidebar button, true
\* exactly when n is odd.
C19_SidebarVisibilityParity ==
  /\ sidebar_left = sidebar_state
  /\ sidebar_state <=> (clicks % 2 = 1)

\* C19 witness: three clicks, column shown.
C19_Witness ==
  /\ clicks = 3
  /\ sidebar_left
  /\ sidebar_state

\* the first n elements of seq
Prefix(seq, n) == [i \in 1..n |-> seq[i]]

SevenRouters == <<"completions", "chat", "chunks", "ingest", "summarize",
                  "embeddings", "health">>

\* C15: the routers are included in the order completions, chat, chunks, ingest,
\* summarize, embeddings, health, each once, and all seven are included before
\* the CORS middleware or the UI is attached and before create_app ends.
C15_RoutersInFixedOrder ==
  /\ Len(routers) <= Len(SevenRouters)
  /\ routers = Prefix(SevenRouters, Len(routers))
  /\ (middleware # <<>> \/ mounts # <<>> \/ callback_manager # <<>>
        \/ app_pc \in {"global_handler", "cors", "ui", "returned", "ImportError"})
       => routers = SevenRouters

\* C15 witness: an application was returned with the seven routers, the CORS
\* middleware and the UI.
C15_Witness ==
  /\ app_pc = "returned"
  /\ routers = SevenRouters
  /\ middleware # <<>>
  /\ mounts # <<>>

\* Two routers of the seven declare the same path.
PathCollision ==
  \E a, b \in DOMAIN environment.router_paths :
    a # b /\ environment.router_paths[a] = environment.router_paths[b]

\* C16 as stated: with two routers declaring the same path, create_app fails
\* and returns no application.
C16_CollisionFailsAtStartup == PathCollision => app_pc # "returned"

\* C16 amended: create_app makes no check of the routers' paths: with two
\* routers declaring the same path both are included like any other, and the
\* only error create_app raises is the ImportError of the UI module.
C16_CollisionNotChecked ==
  /\ app_pc \in {"FastAPI", "include_router", "global_handler", "cors", "ui",
                 "returned", "ImportError"}
  /\ app_pc = "ImportError" => UiUnresolvable
  /\ (PathCollision /\ app_pc \notin {"FastAPI", "include_router"}) =>
       \E i, j \in 1..Len(Routes) : i # j /\ Routes[i].path = Routes[j].path
  /\ (PathCollision /\ ~UiUnresolvable /\ AssemblyEnded) => app_pc = "returned"

\* C16 witness: an application with two routers on one path was returned and
\* has handled a request.
C16_Witness ==
  /\ PathCollision
  /\ app_pc = "returned"
  /\ \E r \in Requests : req_pc[r] = "handled"

\* C17: a request reaches the matched router's own dependencies and its handler
\* only with the context attached by the binder, and no handler runs or fails
\* on a request without one.
C17_BinderRunsFirst ==
  /\ \A r \in Requests :
       /\ req_pc[r] \in {"resolved", "handled", "failed"} =>
            req_injector[r] # NoInjector
       /\ req_pc[r] # "failed"
  /\ app_pc \notin {"FastAPI"} => BinderRegistered

\* C17 witness: a request went through the binder, the router's dependencies
\* and the handler while another is still waiting.
C17_Witness ==
  \E r1, r2 \in Requests :
    /\ req_pc[r1] = "handled"
    /\ req_injector[r1] = RootInjector
    /\ req_pc[r2] = "idle"

====
